---- MODULE Spec2Model ----
(***************************************************************************)
(* Task lifecycle and organization membership of the project-management    *)
(* backend (controllers/task.controller.js,                                *)
(* controllers/organization.controller.js).  The datastore tables the      *)
(* controllers read and write are the variables; every exported handler    *)
(* is one action (SpecTask, SpecOrg: one request at a time; SpecOrgFail:   *)
(* with a datastore write that may throw) or, for the interleaving of      *)
(* requests, one action per await (SpecTaskConc).                          *)
(*                                                                         *)
(* Request fields that no branch of a handler reads (name, description,    *)
(* priority, dueDate, difficulty) are opaque payload and are left out, and *)
(* so are the handlers that only read (getTask, getTasks..., get...).      *)
(* The User, Project and ProjectMembers tables are written by no handler   *)
(* of these controllers and are fixed.                                     *)
(***************************************************************************)
EXTENDS Integers, Sequences, FiniteSets, TLC

\* ------------------------------------------------------------------ bounds
\* Task ids 1..MaxTasks are handed out by createTask (auto-increment).
MaxTasks == 1
\* The clock advances in steps of TickMs, at most MaxTicks times.
MaxTicks == 2
\* Requests whose awaits interleave (SpecTaskConc).
MaxReqs == 3
\* Organization ids 1..MaxOrgs are handed out by createOrganization.
MaxOrgs == 1
\* The uuids inviteUserToOrganization draws are 1..MaxInvites.
MaxInvites == 2
\* Session ids 1..MaxSessions are handed out by createSession.
MaxSessions == 3

\* ------------------------------------------------------------ fixed tables
\* The User, Project and ProjectMembers tables: no handler under
\* controllers/task.controller.js or controllers/organization.controller.js
\* writes them.
Users == {1, 2, 3}
Projects == {1, 2}

\* A null date column (dates are clock readings >= 0).
Null == -1
\* findByPk / findOne finding nothing.
NoRow == [none |-> TRUE]

Statuses == {"todo", "in-progress", "completed"}

\* The role of a membership row that does not exist.
NoMember == "none"

\* ProjectMembers rows: project 1 has owner 1 and member 2, project 2 has
\* owner 2 and member 3.
ProjectMemberRole(userId, projectId) ==
    CASE projectId = 1 /\ userId = 1 -> "owner"
      [] projectId = 1 /\ userId = 2 -> "member"
      [] projectId = 2 /\ userId = 2 -> "owner"
      [] projectId = 2 /\ userId = 3 -> "member"
      [] OTHER -> NoMember

\* One clock step, in milliseconds (45 minutes).
TickMs == 45 * 60 * 1000
\* The divisor of diffInHours.
HourMs == 1000 * 60 * 60

VARIABLES
    tasks,           \* Task table: id -> row or NoRow
    nextTaskId,      \* next auto-increment id of the Task table
    completedTasks,  \* CompletedTask table: rows in insertion order
    now,             \* the clock, in ticks
    resp,            \* the envelope the last request was answered with
    inflight,        \* requests between two awaits: request id -> its frame
    nextReq,         \* next request id
    organizations,        \* Organization table: the ids of its rows
    nextOrgId,            \* next auto-increment id of the Organization table
    organizationMembers,  \* OrganizationMembers: <<org, user>> -> role
    memberRows,      \* OrganizationMembers: <<org, user>> -> number of rows
    invites,              \* Invite table: rows [organizationId, userId, secret]
    nextSecret,           \* the next fresh uuid
    consumed,             \* history: <<secret, userId>> of destroyed invites
    sessions,             \* Session table: rows in insertion order, id = index
    returned,             \* what the last getSession call returned
    listed                \* the data of the last read request's response

taskVars == <<tasks, nextTaskId, completedTasks, now>>
concVars == <<inflight, nextReq>>
orgVars == <<organizations, nextOrgId, organizationMembers, memberRows,
             invites, nextSecret, consumed>>
sessionVars == <<sessions, returned>>
readVars == <<listed>>
vars == <<tasks, nextTaskId, completedTasks, now, resp, inflight, nextReq,
          organizations, nextOrgId, organizationMembers, memberRows, invites,
          nextSecret, consumed, sessions, returned, listed>>

TaskIds == 1..MaxTasks
ReqIds == 1..MaxReqs
OrgIds == 1..MaxOrgs
Secrets == 1..MaxInvites
\* A request frame that holds no request.
Idle == [pc |-> "idle"]

\* ------------------------------------------------------------ ORM helpers
\* Column defaults of a new Task row.
TaskDefaults == [status |-> "todo", started_date |-> Null, exception |-> FALSE]

\* A request body is a record holding the fields the caller supplied; a
\* field the caller left out (undefined in the handler) is not in its domain.
Has(body, f) == f \in DOMAIN body

Restrict(r, D) == [f \in D |-> r[f]]

\* instance.update(values): fields whose value is undefined are dropped, the
\* others overwrite the row.
Merge(row, values) ==
    [f \in DOMAIN row |-> IF f \in DOMAIN values THEN values[f] ELSE row[f]]

Abs(x) == IF x < 0 THEN -x ELSE x

\* Math.floor(Math.abs(now - started_date) / (1000 * 60 * 60)), dates in ticks.
DiffInHoursRounded(nowT, started) ==
    ((Abs(nowT - (IF started = Null THEN 0 ELSE started)) * TickMs)
        + (HourMs \div 2)) \div HourMs

DiffInHours(nowT, started) ==
    (Abs(nowT - (IF started = Null THEN 0 ELSE started)) * TickMs) \div HourMs

\* !projectMember || (userId !== task.assigneeId && projectMember.role !==
\* "owner" && userId !== task.createdBy)
UnauthorizedNonMembersOnly(userId, task) ==
    ProjectMemberRole(userId, task.projectId) = NoMember

Unauthorized(userId, task) ==
    LET role == ProjectMemberRole(userId, task.projectId) IN
    \/ role = NoMember
    \/ /\ userId # task.assigneeId
       /\ role # "owner"
       /\ userId # task.createdBy

Response(op, actor, id, code) ==
    [op |-> op, actor |-> actor, id |-> id, code |-> code]

\* --------------------------------------------------------------- handlers
\* The return statement createTask ends in, named by its message.
\* createTask's two 404 answers (project or assignee not found) need a
\* ProjectMembers row of a project or user that does not exist; the fixed
\* tables hold none.
CreateTaskBranchNoAssigneeCheck(userId, assigneeId, projectId) ==
    IF ProjectMemberRole(userId, projectId) = NoMember
    THEN "You are not a member of this project"
    ELSE "Task created successfully"

CreateTaskBranch(userId, assigneeId, projectId) ==
    IF ProjectMemberRole(userId, projectId) = NoMember
    THEN "You are not a member of this project"
    ELSE IF ProjectMemberRole(assigneeId, projectId) = NoMember
    THEN "The assignee is not a member of this project"
    ELSE "Task created successfully"

CreateTask(userId, assigneeId, projectId, createdBy) ==
    /\ nextTaskId <= MaxTasks
    /\ IF CreateTaskBranch(userId, assigneeId, projectId)
            # "Task created successfully"
       THEN /\ resp' = Response("createTask", userId, 0, 403)
            /\ UNCHANGED <<taskVars, concVars, orgVars, sessionVars,
                           readVars>>
       ELSE /\ tasks' = [tasks EXCEPT ![nextTaskId] =
                    [projectId |-> projectId, assigneeId |-> assigneeId,
                     createdBy |-> createdBy,
                     status |-> TaskDefaults.status,
                     started_date |-> TaskDefaults.started_date,
                     exception |-> TaskDefaults.exception]]
            /\ nextTaskId' = nextTaskId + 1
            /\ resp' = Response("createTask", userId, nextTaskId, 200)
            /\ UNCHANGED <<completedTasks, now, concVars, orgVars,
                           sessionVars, readVars>>

\* The CompletedTask rows task.destroy() leaves: CompletedTask.task_id is a
\* plain column, the rows of a destroyed task stay.
DestroyCascades(taskId) ==
    SelectSeq(completedTasks, LAMBDA row : row.task_id # taskId)

DestroyLeaves(taskId) == completedTasks

DeleteTask(userId, taskId) ==
    LET task == tasks[taskId] IN
    IF task = NoRow
    THEN /\ resp' = Response("deleteTask", userId, taskId, 404)
         /\ UNCHANGED <<taskVars, concVars, orgVars, sessionVars, readVars>>
    ELSE IF Unauthorized(userId, task)
    THEN /\ resp' = Response("deleteTask", userId, taskId, 403)
         /\ UNCHANGED <<taskVars, concVars, orgVars, sessionVars, readVars>>
    ELSE /\ tasks' = [tasks EXCEPT ![taskId] = NoRow]
         /\ completedTasks' = DestroyLeaves(taskId)
         /\ resp' = Response("deleteTask", userId, taskId, 200)
         /\ UNCHANGED <<nextTaskId, now, concVars, orgVars, sessionVars,
                        readVars>>

\* The request fields updateTask passes on to task.update.
UpdateFields == {"assigneeId", "projectId", "exception", "status"}

\* task.assigneeId != assigneeId
AssigneeChanged(task, body) ==
    ~Has(body, "assigneeId") \/ task.assigneeId # body.assigneeId

\* status == "in-progress"
WantsInProgress(body) == Has(body, "status") /\ body.status = "in-progress"

\* The values updateTask hands to task.update on each of its three paths.
ReassignValuesKeepStatus(body) ==
    [f \in (DOMAIN body) \cup {"started_date"} |->
        IF f = "started_date" THEN Null ELSE body[f]]

ReassignValues(body) ==
    [f \in ((DOMAIN body) \ {"status"}) \cup {"status", "started_date"} |->
        CASE f = "status" -> "todo"
          [] f = "started_date" -> Null
          [] OTHER -> body[f]]

StartValues(body, started) ==
    [f \in (DOMAIN body) \cup {"started_date"} |->
        IF f = "started_date" THEN started ELSE body[f]]

PlainValues(body) == body

\* What updateTask decides from the task it read: the status code and the
\* values to write (NoRow: no write).
UpdateDecisionNoCompletedCheck(userId, task, body, nowT) ==
    IF Unauthorized(userId, task)
    THEN [code |-> 403, values |-> NoRow]
    ELSE IF AssigneeChanged(task, body)
    THEN [code |-> 200, values |-> ReassignValues(body)]
    ELSE IF WantsInProgress(body) /\ task.status = "in-progress"
    THEN [code |-> 403, values |-> NoRow]
    ELSE IF WantsInProgress(body) /\ task.started_date = Null
    THEN [code |-> 200, values |-> StartValues(body, nowT)]
    ELSE [code |-> 200, values |-> PlainValues(body)]

UpdateDecision(userId, task, body, nowT) ==
    IF Unauthorized(userId, task)
    THEN [code |-> 403, values |-> NoRow]
    ELSE IF task.status = "completed"
    THEN [code |-> 403, values |-> NoRow]
    ELSE IF AssigneeChanged(task, body)
    THEN [code |-> 200, values |-> ReassignValues(body)]
    ELSE IF WantsInProgress(body) /\ task.status = "in-progress"
    THEN [code |-> 403, values |-> NoRow]
    ELSE IF WantsInProgress(body) /\ task.started_date = Null
    THEN [code |-> 200, values |-> StartValues(body, nowT)]
    ELSE [code |-> 200, values |-> PlainValues(body)]

\* The row updateTask leaves behind for the task it read.
UpdateResult(userId, task, body, nowT) ==
    LET d == UpdateDecision(userId, task, body, nowT) IN
    IF d.values = NoRow THEN task ELSE Merge(task, d.values)

UpdateTask(userId, taskId, body) ==
    LET task == tasks[taskId] IN
    IF task = NoRow
    THEN /\ resp' = Response("updateTask", userId, taskId, 404)
         /\ UNCHANGED <<taskVars, concVars, orgVars, sessionVars, readVars>>
    ELSE /\ resp' = Response("updateTask", userId, taskId,
                             UpdateDecision(userId, task, body, now).code)
         /\ tasks' = [tasks EXCEPT ![taskId] =
                         UpdateResult(userId, task, body, now)]
         /\ UNCHANGED <<nextTaskId, completedTasks, now, concVars,
                        orgVars, sessionVars, readVars>>

\* task.status !== "in-progress"
NotInProgressTodoOnly(task) == task.status = "todo"

NotInProgress(task) == task.status # "in-progress"

\* The CompletedTask row completeTask creates.
CompletedRow(taskId, userId, task, nowT) ==
    [task_id |-> taskId, user_id |-> userId, project_id |-> task.projectId,
     started_date |-> task.started_date, completed_date |-> nowT,
     hours |-> DiffInHours(nowT, task.started_date)]

CompleteTask(userId, taskId) ==
    LET task == tasks[taskId] IN
    IF task = NoRow
    THEN /\ resp' = Response("completeTask", userId, taskId, 404)
         /\ UNCHANGED <<taskVars, concVars, orgVars, sessionVars, readVars>>
    ELSE IF NotInProgress(task)
    THEN /\ resp' = Response("completeTask", userId, taskId, 403)
         /\ UNCHANGED <<taskVars, concVars, orgVars, sessionVars, readVars>>
    ELSE IF Unauthorized(userId, task)
    THEN /\ resp' = Response("completeTask", userId, taskId, 403)
         /\ UNCHANGED <<taskVars, concVars, orgVars, sessionVars, readVars>>
    ELSE LET flagged == IF DiffInHours(now, task.started_date) = 0
                        THEN Merge(task, [exception |-> TRUE])
                        ELSE task IN
         /\ completedTasks' =
                Append(completedTasks, CompletedRow(taskId, userId, task, now))
         /\ tasks' = [tasks EXCEPT ![taskId] =
                         Merge(flagged, [status |-> "completed"])]
         /\ resp' = Response("completeTask", userId, taskId, 200)
         /\ UNCHANGED <<nextTaskId, now, concVars, orgVars, sessionVars,
                        readVars>>

\* Time passes between requests.
Tick ==
    /\ now < MaxTicks
    /\ now' = now + 1
    /\ UNCHANGED <<tasks, nextTaskId, completedTasks, resp, concVars,
                   orgVars, sessionVars, readVars>>

\* ------------------------------------------- handlers, one await at a time
\* A request in flight keeps what the handler holds in its local variables
\* between two awaits: the Task instance it read (task) and what it computed.
Done == [pc |-> "done"]

\* instance.update(values) of an instance read earlier: no query when no
\* value differs from the instance; otherwise UPDATE ... SET every value
\* given ... WHERE id, which changes nothing when the row is gone.
RowUpdate(row, instance, values) ==
    IF row = NoRow \/ \A f \in DOMAIN values : values[f] = instance[f]
    THEN row
    ELSE Merge(row, values)

\* updateTask up to its task.update: findByPk, ProjectMembers.findOne and the
\* checks on what they returned.
UpdateTaskRead(r, userId, taskId, body) ==
    /\ r = nextReq /\ r <= MaxReqs
    /\ nextReq' = nextReq + 1
    /\ UNCHANGED <<taskVars, orgVars, sessionVars, readVars>>
    /\ LET task == tasks[taskId] IN
       IF task = NoRow
       THEN /\ resp' = Response("updateTask", userId, taskId, 404)
            /\ inflight' = [inflight EXCEPT ![r] = Done]
       ELSE LET d == UpdateDecision(userId, task, body, now) IN
            IF d.values = NoRow
            THEN /\ resp' = Response("updateTask", userId, taskId, d.code)
                 /\ inflight' = [inflight EXCEPT ![r] = Done]
            ELSE /\ inflight' = [inflight EXCEPT ![r] =
                        [pc |-> "update", userId |-> userId,
                         taskId |-> taskId, task |-> task,
                         values |-> d.values]]
                 /\ UNCHANGED resp

\* await task.update({...}) and the response after it.
UpdateTaskWrite(r) ==
    LET f == inflight[r] IN
    /\ f.pc = "update"
    /\ tasks' = [tasks EXCEPT ![f.taskId] = RowUpdate(@, f.task, f.values)]
    /\ inflight' = [inflight EXCEPT ![r] = Done]
    /\ resp' = Response("updateTask", f.userId, f.taskId, 200)
    /\ UNCHANGED <<nextTaskId, completedTasks, now, nextReq,
                   orgVars, sessionVars, readVars>>

\* completeTask up to its first write: findByPk, the status check,
\* ProjectMembers.findOne, the authorization check, diffInHours.
CompleteTaskRead(r, userId, taskId) ==
    /\ r = nextReq /\ r <= MaxReqs
    /\ nextReq' = nextReq + 1
    /\ UNCHANGED <<taskVars, orgVars, sessionVars, readVars>>
    /\ LET task == tasks[taskId] IN
       IF task = NoRow
       THEN /\ resp' = Response("completeTask", userId, taskId, 404)
            /\ inflight' = [inflight EXCEPT ![r] = Done]
       ELSE IF NotInProgress(task) \/ Unauthorized(userId, task)
       THEN /\ resp' = Response("completeTask", userId, taskId, 403)
            /\ inflight' = [inflight EXCEPT ![r] = Done]
       ELSE /\ inflight' = [inflight EXCEPT ![r] =
                   [pc |-> IF DiffInHours(now, task.started_date) = 0
                           THEN "flag" ELSE "create",
                    userId |-> userId, taskId |-> taskId, task |-> task,
                    hours |-> DiffInHours(now, task.started_date)]]
            /\ UNCHANGED resp

\* await task.update({exception: true})
CompleteTaskFlag(r) ==
    LET f == inflight[r] IN
    /\ f.pc = "flag"
    /\ tasks' = [tasks EXCEPT ![f.taskId] =
                    RowUpdate(@, f.task, [exception |-> TRUE])]
    /\ inflight' = [inflight EXCEPT ![r] =
           [f EXCEPT !.pc = "create",
                     !.task = Merge(f.task, [exception |-> TRUE])]]
    /\ UNCHANGED <<nextTaskId, completedTasks, now, nextReq, resp,
                   orgVars, sessionVars, readVars>>

\* await CompletedTask.create({...})
CompleteTaskCreate(r) ==
    LET f == inflight[r] IN
    /\ f.pc = "create"
    /\ completedTasks' = Append(completedTasks,
           [CompletedRow(f.taskId, f.userId, f.task, now)
               EXCEPT !.hours = f.hours])
    /\ inflight' = [inflight EXCEPT ![r] = [f EXCEPT !.pc = "finish"]]
    /\ UNCHANGED <<tasks, nextTaskId, now, nextReq, resp,
                   orgVars, sessionVars, readVars>>

\* await task.update({status: "completed"}) and the response after it.
CompleteTaskFinish(r) ==
    LET f == inflight[r] IN
    /\ f.pc = "finish"
    /\ tasks' = [tasks EXCEPT ![f.taskId] =
                    RowUpdate(@, f.task, [status |-> "completed"])]
    /\ inflight' = [inflight EXCEPT ![r] = Done]
    /\ resp' = Response("completeTask", f.userId, f.taskId, 200)
    /\ UNCHANGED <<nextTaskId, completedTasks, now, nextReq,
                   orgVars, sessionVars, readVars>>

\* ------------------------------------------------- organization handlers
\* The status code of a handler that ended without sending a response.
NoReply == 0

\* User.findOne({where: {email}}): user u has email u; UnknownEmail belongs
\* to nobody.
UnknownEmail == 0
UserByEmail(email) == IF email \in Users THEN email ELSE 0

\* OrganizationMembers.findOne({where: {organizationId, userId}}).role
MemberRole(organizationId, userId) ==
    organizationMembers[<<organizationId, userId>>]

\* !currentUser || currentUser.role !== "owner"
NotOwnerNonMembersOnly(organizationId, userId) ==
    MemberRole(organizationId, userId) = NoMember

NotOwner(organizationId, userId) ==
    MemberRole(organizationId, userId) # "owner"

\* OrganizationMembers.findAll({where: {organizationId, role: "owner"}})
Owners(organizationId) ==
    {u \in Users : organizationMembers[<<organizationId, u>>] = "owner"}

\* The composite (organizationId, userId) key of OrganizationMembers: a second
\* row for the pair is refused by the datastore.
MemberInsertNeverRefused(organizationId, userId) == FALSE

MemberInsertRefused(organizationId, userId) ==
    MemberRole(organizationId, userId) # NoMember

\* failAt names the datastore write that throws: 0 none, 1 the first, 2 the
\* second.
CreateOrganization(userId, failAt) ==
    /\ nextOrgId <= MaxOrgs
    /\ UNCHANGED <<taskVars, concVars, sessionVars, readVars, invites,
                   nextSecret,
                   consumed>>
    /\ IF failAt = 1
       THEN /\ resp' = Response("createOrganization", userId, 0, 500)
            /\ UNCHANGED <<organizations, nextOrgId, organizationMembers,
                           memberRows>>
       ELSE /\ organizations' = organizations \cup {nextOrgId}
            /\ nextOrgId' = nextOrgId + 1
            /\ IF failAt = 2
               THEN /\ resp' = Response("createOrganization", userId,
                                        nextOrgId, 500)
                    /\ UNCHANGED <<organizationMembers, memberRows>>
               ELSE /\ organizationMembers' =
                         [organizationMembers EXCEPT
                             ![<<nextOrgId, userId>>] = "owner"]
                    /\ memberRows' =
                         [memberRows EXCEPT ![<<nextOrgId, userId>>] = @ + 1]
                    /\ resp' = Response("createOrganization", userId,
                                        nextOrgId, 200)

InviteUserToOrganization(userId, organizationId, email) ==
    /\ nextSecret <= MaxInvites
    /\ UNCHANGED <<taskVars, concVars, sessionVars, readVars,
                   organizations, nextOrgId,
                   organizationMembers, memberRows, consumed>>
    /\ LET user == UserByEmail(email) IN
       IF NotOwner(organizationId, userId)
       THEN /\ resp' = Response("inviteUserToOrganization", userId, 0, 401)
            /\ UNCHANGED <<invites, nextSecret>>
       ELSE IF user = 0
       THEN /\ resp' = Response("inviteUserToOrganization", userId, 0, 404)
            /\ UNCHANGED <<invites, nextSecret>>
       ELSE IF MemberRole(organizationId, user) # NoMember
       THEN /\ resp' = Response("inviteUserToOrganization", userId, 0, 400)
            /\ UNCHANGED <<invites, nextSecret>>
       ELSE /\ invites' = invites \cup
                   {[organizationId |-> organizationId, userId |-> user,
                     secret |-> nextSecret]}
            /\ nextSecret' = nextSecret + 1
            /\ resp' = Response("inviteUserToOrganization", userId,
                                nextSecret, 200)

\* Invite.findOne({where: {secret, userId}})
FindInvite(secret, userId) ==
    {i \in invites : i.secret = secret /\ i.userId = userId}

\* invite.destroy()
DestroyInviteKeepsRow(invite) == invites

DestroyInvite(invite) == invites \ {invite}

AcceptInvitation(userId, secret, failAt) ==
    /\ UNCHANGED <<taskVars, concVars, sessionVars, readVars, organizations,
                   nextOrgId, nextSecret>>
    /\ IF FindInvite(secret, userId) = {}
       THEN /\ resp' = Response("acceptInvitation", userId, secret, 404)
            /\ UNCHANGED <<organizationMembers, memberRows, invites,
                           consumed>>
       ELSE LET invite == CHOOSE i \in FindInvite(secret, userId) : TRUE IN
            IF failAt = 1 \/ MemberInsertRefused(invite.organizationId,
                                                 invite.userId)
            THEN /\ resp' = Response("acceptInvitation", userId, secret, 500)
                 /\ UNCHANGED <<organizationMembers, memberRows, invites,
                                consumed>>
            ELSE /\ organizationMembers' =
                      [organizationMembers EXCEPT
                          ![<<invite.organizationId, invite.userId>>] =
                              "member"]
                 /\ memberRows' =
                      [memberRows EXCEPT
                          ![<<invite.organizationId, invite.userId>>] =
                              @ + 1]
                 /\ IF failAt = 2
                    THEN /\ resp' = Response("acceptInvitation", userId,
                                             secret, 500)
                         /\ UNCHANGED <<invites, consumed>>
                    ELSE /\ invites' = DestroyInvite(invite)
                         /\ consumed' = consumed \cup {<<secret, userId>>}
                         /\ resp' = Response("acceptInvitation", userId,
                                             secret, 200)

\* The response rejectInvitation builds after invite.destroy() reads the
\* variable organizationMember, which the function never declares: the
\* ReferenceError is caught and answered with 500.
RejectReplyCode == 500

RejectInvitation(userId, secret, failAt) ==
    /\ UNCHANGED <<taskVars, concVars, sessionVars, readVars, organizations,
                   nextOrgId, nextSecret,
                   organizationMembers, memberRows>>
    /\ IF FindInvite(secret, userId) = {}
       THEN /\ resp' = Response("rejectInvitation", userId, secret, 404)
            /\ UNCHANGED <<invites, consumed>>
       ELSE LET invite == CHOOSE i \in FindInvite(secret, userId) : TRUE IN
            IF failAt = 1
            THEN /\ resp' = Response("rejectInvitation", userId, secret, 500)
                 /\ UNCHANGED <<invites, consumed>>
            ELSE /\ invites' = DestroyInvite(invite)
                 /\ consumed' = consumed \cup {<<secret, userId>>}
                 /\ resp' = Response("rejectInvitation", userId, secret,
                                     RejectReplyCode)

\* The return statement removeOrganizationMember ends in, named by what its
\* message says.
RemoveBranchNoOwnerCheck(currentUserId, organizationId, userId) ==
    IF NotOwner(organizationId, currentUserId) THEN "unauthorized"
    ELSE IF MemberRole(organizationId, userId) = NoMember THEN "not a member"
    ELSE IF Cardinality(Owners(organizationId)) = 1 THEN "the last owner"
    ELSE "removed"

RemoveBranch(currentUserId, organizationId, userId) ==
    IF NotOwner(organizationId, currentUserId) THEN "unauthorized"
    ELSE IF MemberRole(organizationId, userId) = NoMember THEN "not a member"
    ELSE IF MemberRole(organizationId, userId) = "owner" THEN "an owner"
    ELSE IF Cardinality(Owners(organizationId)) = 1 THEN "the last owner"
    ELSE "removed"

RemoveOrganizationMember(currentUserId, organizationId, userId) ==
    LET branch == RemoveBranch(currentUserId, organizationId, userId) IN
    /\ UNCHANGED <<taskVars, concVars, sessionVars, readVars, organizations,
                   nextOrgId, invites, nextSecret, consumed>>
    /\ resp' = Response("removeOrganizationMember", currentUserId,
                        organizationId,
                        CASE branch = "unauthorized" -> 401
                          [] branch = "removed" -> 200
                          [] OTHER -> 400)
    /\ organizationMembers' =
           IF branch = "removed"
           THEN [organizationMembers EXCEPT
                    ![<<organizationId, userId>>] = NoMember]
           ELSE organizationMembers
    /\ memberRows' =
           IF branch = "removed"
           THEN [memberRows EXCEPT ![<<organizationId, userId>>] = @ - 1]
           ELSE memberRows

\* The role values a caller may send: the handler does not validate them.
\* body is the request body: a record holding role when the caller sent one.
RoleInputs == {"owner", "member", "guest"}

UpdateOrganizationMember(currentUserId, organizationId, userId, body) ==
    /\ UNCHANGED <<taskVars, concVars, sessionVars, readVars, organizations,
                   nextOrgId, invites,
                   nextSecret, consumed, memberRows>>
    /\ IF NotOwner(organizationId, currentUserId)
       THEN /\ resp' = Response("updateOrganizationMember", currentUserId,
                                organizationId, 401)
            /\ UNCHANGED organizationMembers
       ELSE IF MemberRole(organizationId, userId) = NoMember
       THEN /\ resp' = Response("updateOrganizationMember", currentUserId,
                                organizationId, 400)
            /\ UNCHANGED organizationMembers
       ELSE /\ organizationMembers' =
                 [organizationMembers EXCEPT ![<<organizationId, userId>>] =
                     IF Has(body, "role") THEN body.role ELSE @]
            /\ resp' = Response("updateOrganizationMember", currentUserId,
                                organizationId, NoReply)

\* acceptInvitation, one await at a time. A request in flight keeps the
\* Invite instance it found.
\* await Invite.findOne({where: {secret, userId}}) and the 404 after it.
AcceptInvitationFind(r, userId, secret) ==
    /\ r = nextReq /\ r <= MaxReqs
    /\ nextReq' = nextReq + 1
    /\ UNCHANGED <<taskVars, orgVars, sessionVars, readVars>>
    /\ IF FindInvite(secret, userId) = {}
       THEN /\ resp' = Response("acceptInvitation", userId, secret, 404)
            /\ inflight' = [inflight EXCEPT ![r] = Done]
       ELSE /\ inflight' = [inflight EXCEPT ![r] =
                   [pc |-> "create", userId |-> userId, secret |-> secret,
                    invite |-> CHOOSE i \in FindInvite(secret, userId) :
                                  TRUE]]
            /\ UNCHANGED resp

\* await OrganizationMembers.create({organizationId, userId, role: "member"}):
\* a refused insert throws and the catch answers 500.
AcceptInvitationCreate(r) ==
    LET f == inflight[r]
        k == <<f.invite.organizationId, f.invite.userId>> IN
    /\ f.pc = "create"
    /\ UNCHANGED <<taskVars, sessionVars, readVars, nextReq, organizations,
                   nextOrgId, invites, nextSecret, consumed>>
    /\ IF MemberInsertRefused(k[1], k[2])
       THEN /\ resp' = Response("acceptInvitation", f.userId, f.secret, 500)
            /\ inflight' = [inflight EXCEPT ![r] = Done]
            /\ UNCHANGED <<organizationMembers, memberRows>>
       ELSE /\ organizationMembers' =
                 [organizationMembers EXCEPT ![k] =
                     IF @ = NoMember THEN "member" ELSE @]
            /\ memberRows' = [memberRows EXCEPT ![k] = @ + 1]
            /\ inflight' = [inflight EXCEPT ![r].pc = "destroy"]
            /\ UNCHANGED resp

\* await invite.destroy() of the instance found earlier, and the response.
AcceptInvitationDestroy(r) ==
    LET f == inflight[r] IN
    /\ f.pc = "destroy"
    /\ invites' = DestroyInvite(f.invite)
    /\ consumed' = consumed \cup {<<f.secret, f.userId>>}
    /\ resp' = Response("acceptInvitation", f.userId, f.secret, 200)
    /\ inflight' = [inflight EXCEPT ![r] = Done]
    /\ UNCHANGED <<taskVars, sessionVars, readVars, nextReq, organizations,
                   nextOrgId, organizationMembers, memberRows, nextSecret>>

\* ------------------------------------------------------ session handlers
\* Column default of a new Session row.
SessionDefaults == [valid |-> TRUE]

SessionIds == 1..MaxSessions

\* getSession has not been called.
NoReturn == [id |-> 0, session |-> NoRow]

\* passwordOk is bcrypt.compareSync(password, user.password).  failAt = 1:
\* Session.create throws; createSession has no try/catch, so the rejection
\* leaves the handler and no response is sent.
CreateSession(email, passwordOk, failAt) ==
    LET user == UserByEmail(email) IN
    /\ Len(sessions) < MaxSessions
    /\ UNCHANGED <<taskVars, concVars, orgVars, returned, readVars>>
    /\ IF user = 0 \/ ~passwordOk
       THEN /\ resp' = Response("createSession", user, 0, 401)
            /\ UNCHANGED sessions
       ELSE IF failAt = 1
       THEN /\ resp' = Response("createSession", user, 0, NoReply)
            /\ UNCHANGED sessions
       ELSE /\ sessions' = Append(sessions,
                   [userId |-> user, valid |-> SessionDefaults.valid])
            /\ resp' = Response("createSession", user, Len(sessions) + 1, 200)

\* Session.findOne({...}) without await: the pending promise, which has no
\* property valid.
PendingFindOne(sessionId) == [pending |-> TRUE]

\* session && session.valid ? session : null
GetSessionReturn(sessionId) ==
    LET session == PendingFindOne(sessionId) IN
    IF Has(session, "valid") /\ session.valid THEN session ELSE NoRow

GetSession(sessionId) ==
    /\ returned' = [id |-> sessionId, session |-> GetSessionReturn(sessionId)]
    /\ UNCHANGED <<taskVars, concVars, orgVars, resp, sessions,
                   readVars>>

\* Session.update({valid: false}) is called with no where option and without
\* await.  What the call does is the ORM's: it throws in the call (nothing is
\* written, the exception leaves deleteSession before res.send), it returns a
\* promise that rejects (nothing is written, res.send runs), or it runs the
\* UPDATE, which without a where clause writes every row.
UpdateOutcomes == {"throws", "rejects", "writes"}

\* The row the UPDATE leaves: SET valid = false.
ToggledRow(row) == Merge(row, [valid |-> ~row.valid])

InvalidatedRow(row) == Merge(row, [valid |-> FALSE])

\* sessionId is the session of the caller; the handler does not read it.
DeleteSession(sessionId, outcome) ==
    /\ sessionId \in DOMAIN sessions
    /\ UNCHANGED <<taskVars, concVars, orgVars, returned, readVars>>
    /\ sessions' = IF outcome = "writes"
                   THEN [i \in DOMAIN sessions |-> InvalidatedRow(sessions[i])]
                   ELSE sessions
    /\ resp' = Response("deleteSession", sessions[sessionId].userId,
                        sessionId,
                        IF outcome = "throws" THEN NoReply ELSE 200)

\* ---------------------------------------------------------- read handlers
\* Project.organizationId: the two projects are projects of organization 1.
ProjectOrganization(projectId) == 1

\* Where the access check of a read handler leaves the request: it passes,
\* it is answered 403, or reading .role of the membership that findOne did
\* not find throws a TypeError, which the catch answers with 500.
\* !projectMember && organizationMember.role !== "owner"
GateProjectOrOwner(userId, projectId, organizationId) ==
    IF ProjectMemberRole(userId, projectId) # NoMember THEN "pass"
    ELSE IF MemberRole(organizationId, userId) = NoMember THEN "throws"
    ELSE IF MemberRole(organizationId, userId) # "owner" THEN "forbidden"
    ELSE "pass"

\* !projectMember || organizationMember.role !== "owner"
GateProjectAndOwner(userId, projectId, organizationId) ==
    IF ProjectMemberRole(userId, projectId) = NoMember THEN "forbidden"
    ELSE IF MemberRole(organizationId, userId) = NoMember THEN "throws"
    ELSE IF MemberRole(organizationId, userId) # "owner" THEN "forbidden"
    ELSE "pass"

GateCode(gate) ==
    CASE gate = "pass" -> 200
      [] gate = "forbidden" -> 403
      [] OTHER -> 500

\* Task.findAll({where: {projectId, status: {[Op.not]: "completed"}}})
OpenTasksOfProject(projectId) ==
    {t \in TaskIds : /\ tasks[t] # NoRow
                     /\ tasks[t].projectId = projectId
                     /\ tasks[t].status # "completed"}

\* Task.findAll({where: {assigneeId: userId, projectId: project.id}})
TasksOfUser(userId, projectId) ==
    {t \in TaskIds : /\ tasks[t] # NoRow
                     /\ tasks[t].assigneeId = userId
                     /\ tasks[t].projectId = projectId}

\* CompletedTask.findAll({where: {project_id: projectId}})
CompletedOfProject(projectId) ==
    {i \in DOMAIN completedTasks : completedTasks[i].project_id = projectId}

\* The read handlers are called for the projects and users of the fixed
\* tables, so their "Project not found" and "User not found" answers are
\* not taken; "Organization not found" is.
GetTasksProject(userId, projectId) ==
    LET organizationId == ProjectOrganization(projectId)
        gate == GateProjectOrOwner(userId, projectId, organizationId)
    IN /\ UNCHANGED <<taskVars, concVars, orgVars, sessionVars>>
       /\ IF organizationId \notin organizations
          THEN /\ resp' = Response("getTasksProject", userId, projectId, 404)
               /\ listed' = {}
          ELSE /\ resp' = Response("getTasksProject", userId, projectId,
                                   GateCode(gate))
               /\ listed' = IF gate = "pass"
                            THEN OpenTasksOfProject(projectId) ELSE {}

\* Organization.findByPk(organizationId) finding nothing makes
\* organization.id throw before the access check.
GetTasksUser(currentUserId, organizationId, projectId, userId) ==
    LET gate == GateProjectAndOwner(currentUserId, projectId, organizationId)
    IN /\ UNCHANGED <<taskVars, concVars, orgVars, sessionVars>>
       /\ IF organizationId \notin organizations
          THEN /\ resp' = Response("getTasksUser", currentUserId, projectId,
                                   500)
               /\ listed' = {}
          ELSE /\ resp' = Response("getTasksUser", currentUserId, projectId,
                                   GateCode(gate))
               /\ listed' = IF gate = "pass"
                            THEN TasksOfUser(userId, projectId) ELSE {}

GetCompletedTasksProject(userId, projectId) ==
    LET organizationId == ProjectOrganization(projectId)
        gate == GateProjectOrOwner(userId, projectId, organizationId)
    IN /\ UNCHANGED <<taskVars, concVars, orgVars, sessionVars>>
       /\ IF organizationId \notin organizations
          THEN /\ resp' = Response("getCompletedTasksProject", userId,
                                   projectId, 404)
               /\ listed' = {}
          ELSE /\ resp' = Response("getCompletedTasksProject", userId,
                                   projectId, GateCode(gate))
               /\ listed' = IF gate = "pass"
                            THEN CompletedOfProject(projectId) ELSE {}

\* ---------------------------------------------------------- specification
NoResponse == Response("none", 0, 0, 0)

\* The updateTask request bodies: every subset of the fields, every value.
UpdateBodies ==
    { Restrict(full, D) :
        full \in [assigneeId : Users, projectId : Projects,
                  exception : BOOLEAN, status : Statuses],
        D \in SUBSET UpdateFields }

Init ==
    /\ tasks = [t \in TaskIds |-> NoRow]
    /\ nextTaskId = 1
    /\ completedTasks = <<>>
    /\ now = 0
    /\ resp = NoResponse
    /\ inflight = [r \in ReqIds |-> Idle]
    /\ nextReq = 1
    /\ organizations = {}
    /\ nextOrgId = 1
    /\ organizationMembers = [k \in OrgIds \X Users |-> NoMember]
    /\ memberRows = [k \in OrgIds \X Users |-> 0]
    /\ invites = {}
    /\ nextSecret = 1
    /\ consumed = {}
    /\ sessions = <<>>
    /\ returned = NoReturn
    /\ listed = {}

NextTask ==
    \/ \E u \in Users, a \in Users, p \in Projects, c \in Users :
          CreateTask(u, a, p, c)
    \/ \E u \in Users, t \in TaskIds : DeleteTask(u, t)
    \/ \E u \in Users, t \in TaskIds, b \in UpdateBodies : UpdateTask(u, t, b)
    \/ \E u \in Users, t \in TaskIds : CompleteTask(u, t)
    \/ Tick

SpecTask == Init /\ [][NextTask]_vars

\* updateTask and completeTask requests whose awaits interleave.  The bodies
\* are those that set assigneeId and status.
ConcBodies == {b \in UpdateBodies : DOMAIN b \subseteq {"assigneeId", "status"}}

NextTaskConc ==
    \/ \E u \in Users, a \in Users, p \in Projects, c \in Users :
          CreateTask(u, a, p, c)
    \/ \E r \in ReqIds, u \in Users, t \in TaskIds, b \in ConcBodies :
          UpdateTaskRead(r, u, t, b)
    \/ \E r \in ReqIds : UpdateTaskWrite(r)
    \/ \E r \in ReqIds, u \in Users, t \in TaskIds : CompleteTaskRead(r, u, t)
    \/ \E r \in ReqIds : CompleteTaskFlag(r)
    \/ \E r \in ReqIds : CompleteTaskCreate(r)
    \/ \E r \in ReqIds : CompleteTaskFinish(r)
    \/ Tick

SpecTaskConc == Init /\ [][NextTaskConc]_vars

\* The updateOrganizationMember request bodies.
RoleBodies == {[role |-> r] : r \in RoleInputs} \cup {<<>>}

\* The organization handlers, one request at a time, every datastore call
\* succeeding.
NextOrg ==
    \/ \E u \in Users : CreateOrganization(u, 0)
    \/ \E u \in Users, o \in OrgIds, e \in Users \cup {UnknownEmail} :
          InviteUserToOrganization(u, o, e)
    \/ \E u \in Users, s \in Secrets : AcceptInvitation(u, s, 0)
    \/ \E u \in Users, s \in Secrets : RejectInvitation(u, s, 0)
    \/ \E u \in Users, o \in OrgIds, t \in Users :
          RemoveOrganizationMember(u, o, t)
    \/ \E u \in Users, o \in OrgIds, t \in Users, b \in RoleBodies :
          UpdateOrganizationMember(u, o, t, b)

SpecOrg == Init /\ [][NextOrg]_vars

\* The same handlers with a datastore write that may throw.
FailPoints == {0, 1, 2}

NextOrgFail ==
    \/ \E u \in Users, f \in FailPoints : CreateOrganization(u, f)
    \/ \E u \in Users, o \in OrgIds, e \in Users \cup {UnknownEmail} :
          InviteUserToOrganization(u, o, e)
    \/ \E u \in Users, s \in Secrets, f \in FailPoints :
          AcceptInvitation(u, s, f)
    \/ \E u \in Users, s \in Secrets, f \in {0, 1} :
          RejectInvitation(u, s, f)
    \/ \E u \in Users, o \in OrgIds, t \in Users :
          RemoveOrganizationMember(u, o, t)
    \/ \E u \in Users, o \in OrgIds, t \in Users, b \in RoleBodies :
          UpdateOrganizationMember(u, o, t, b)

SpecOrgFail == Init /\ [][NextOrgFail]_vars

\* inviteUserToOrganization whole, acceptInvitation requests interleaved at
\* their awaits.
NextOrgRace ==
    \/ \E u \in Users : CreateOrganization(u, 0)
    \/ \E u \in Users, o \in OrgIds, e \in Users :
          InviteUserToOrganization(u, o, e)
    \/ \E r \in ReqIds, u \in Users, s \in Secrets :
          AcceptInvitationFind(r, u, s)
    \/ \E r \in ReqIds : AcceptInvitationCreate(r)
    \/ \E r \in ReqIds : AcceptInvitationDestroy(r)

SpecOrgRace == Init /\ [][NextOrgRace]_vars

\* createSession, getSession and deleteSession, one call at a time.
NextSession ==
    \/ \E e \in Users \cup {UnknownEmail}, ok \in BOOLEAN, f \in {0, 1} :
          CreateSession(e, ok, f)
    \/ \E i \in SessionIds : GetSession(i)
    \/ \E i \in SessionIds, o \in UpdateOutcomes : DeleteSession(i, o)

SpecSession == Init /\ [][NextSession]_vars

\* The read handlers, with the requests that fill the tables they read.
NextRead ==
    \/ \E u \in Users : CreateOrganization(u, 0)
    \/ \E u \in Users, o \in OrgIds, e \in Users :
          InviteUserToOrganization(u, o, e)
    \/ \E u \in Users, s \in Secrets : AcceptInvitation(u, s, 0)
    \/ \E u \in Users, a \in Users, p \in Projects :
          CreateTask(u, a, p, u)
    \/ \E u \in Users, t \in TaskIds, b \in ConcBodies : UpdateTask(u, t, b)
    \/ \E u \in Users, t \in TaskIds : CompleteTask(u, t)
    \/ \E u \in Users, p \in Projects : GetTasksProject(u, p)
    \/ \E c \in Users, o \in OrgIds, p \in Projects, u \in Users :
          GetTasksUser(c, o, p, u)
    \/ \E u \in Users, p \in Projects : GetCompletedTasksProject(u, p)

SpecRead == Init /\ [][NextRead]_vars

\* One updateTask request between whose read and write other updateTask
\* requests run, each from its read to its response.
NextTaskRace ==
    \/ \E u \in Users, a \in Users, p \in Projects : CreateTask(u, a, p, u)
    \/ \E u \in Users, t \in TaskIds, b \in ConcBodies : UpdateTask(u, t, b)
    \/ \E u \in Users, t \in TaskIds, b \in ConcBodies :
          UpdateTaskRead(1, u, t, b)
    \/ UpdateTaskWrite(1)
    \/ Tick

SpecTaskRace == Init /\ [][NextTaskRace]_vars

\* ------------------------------------------------------------- properties
\* The CompletedTask rows of a task.
CompletedCount(taskId) ==
    Cardinality({i \in DOMAIN completedTasks :
                    completedTasks[i].task_id = taskId})

\* The rows of the datastore's tables.
Datastore == <<tasks, completedTasks, organizations, organizationMembers,
               invites>>

\* C1 as stated: every change of a task's status is todo -> in-progress or
\* in-progress -> completed.
C1_OnlyForwardTransitions ==
    [][\A t \in TaskIds :
        (tasks[t] # NoRow /\ tasks'[t] # NoRow
            /\ tasks'[t].status # tasks[t].status)
        => <<tasks[t].status, tasks'[t].status>> \in
              {<<"todo", "in-progress">>, <<"in-progress", "completed">>}]_vars

\* C1 as amended: no request changes the status of a completed task, and
\* completeTask changes a status only from in-progress to completed
\* (updateTask may move a task that is not completed to any status).
C1_CompletedIsTerminal ==
    [][\A t \in TaskIds :
        (tasks[t] # NoRow /\ tasks'[t] # NoRow
            /\ tasks'[t].status # tasks[t].status)
        => /\ tasks[t].status # "completed"
           /\ resp'.op = "completeTask"
              => /\ tasks[t].status = "in-progress"
                 /\ tasks'[t].status = "completed"]_vars

\* An updateTask by an authorized actor was refused on a completed task.
C1_Witness ==
    /\ resp.op = "updateTask" /\ resp.code = 403
    /\ tasks[resp.id] # NoRow
    /\ tasks[resp.id].status = "completed"
    /\ ~Unauthorized(resp.actor, tasks[resp.id])

C3_CompleteNeedsInProgress ==
    [][\A u \in Users, t \in TaskIds :
        (CompleteTask(u, t) /\ tasks[t] # NoRow
            /\ tasks[t].status # "in-progress")
        => /\ resp'.code = 403
           /\ completedTasks' = completedTasks
           /\ tasks' = tasks
           /\ (tasks[t].status = "completed" /\ CompletedCount(t) = 1)
              => CompletedCount(t)' = 1]_vars

\* A second completeTask by an authorized actor was refused on a task that
\* completeTask had completed.
C3_Witness ==
    /\ resp.op = "completeTask" /\ resp.code = 403
    /\ tasks[resp.id] # NoRow
    /\ tasks[resp.id].status = "completed"
    /\ ~Unauthorized(resp.actor, tasks[resp.id])
    /\ CompletedCount(resp.id) = 1

\* C4: interleaved completeTask requests create at most one CompletedTask row
\* for a task.
C4_AtMostOneRecord == \A t \in TaskIds : CompletedCount(t) <= 1

\* C5: once completeTask has completed a task (its CompletedTask row exists
\* and its status is completed), no step of an interleaved updateTask gives
\* it another status.
C5_CompletedStaysCompleted ==
    [][\A t \in TaskIds :
        (tasks[t] # NoRow /\ tasks[t].status = "completed"
            /\ CompletedCount(t) > 0)
        => (tasks'[t] # NoRow /\ tasks'[t].status = "completed")]_vars

\* C6: every organization has at least one member with role owner.
C6_EveryOrganizationHasOwner == \A o \in organizations : Owners(o) # {}

\* C7: an organization row comes into existence together with its owner
\* row, also when a datastore write of createOrganization throws.
C7_CreateOrganizationAtomic ==
    [][\A o \in organizations' \ organizations : Owners(o)' # {}]_vars

\* C8: a request answered with a failure envelope (4xx, 5xx) leaves every
\* table as it was.
C8_FailureChangesNothing ==
    [][resp'.code >= 400 => Datastore' = Datastore]_vars

\* C9: updateTask by an authorized actor on a task that is not completed,
\* with an assignee other than the task's, succeeds and leaves the task with
\* the new assignee, status todo and started_date null, whatever status the
\* request supplied.
C9_ReassignResets ==
    \A t \in TaskIds, u \in Users, b \in UpdateBodies :
        (/\ tasks[t] # NoRow
         /\ Has(b, "assigneeId") /\ b.assigneeId # tasks[t].assigneeId
         /\ tasks[t].status # "completed"
         /\ ~Unauthorized(u, tasks[t]))
        => /\ UpdateDecision(u, tasks[t], b, now).code = 200
           /\ UpdateResult(u, tasks[t], b, now).assigneeId = b.assigneeId
           /\ UpdateResult(u, tasks[t], b, now).status = "todo"
           /\ UpdateResult(u, tasks[t], b, now).started_date = Null

\* A reassignment has acted: after a successful updateTask the task is todo
\* with no started_date, under an assignee createTask could not have given it
\* (not a member of the project), at a time when it could have been started.
C9_Witness ==
    \E t \in TaskIds :
        /\ tasks[t] # NoRow
        /\ resp.op = "updateTask" /\ resp.id = t /\ resp.code = 200
        /\ now > 0
        /\ tasks[t].status = "todo" /\ tasks[t].started_date = Null
        /\ ProjectMemberRole(tasks[t].assigneeId, tasks[t].projectId) = NoMember

\* C10: after an accept or reject has consumed the invite of <<secret, user>>,
\* every accept or reject of that user with that secret answers 404 and
\* creates no membership row.
C10_InviteSingleUse ==
    [][\A u \in Users, s \in Secrets :
        (<<s, u>> \in consumed
            /\ (AcceptInvitation(u, s, 0) \/ RejectInvitation(u, s, 0)))
        => /\ resp'.code = 404
           /\ organizationMembers' = organizationMembers
           /\ invites' = invites]_vars

\* An accept or reject was answered 404 for an invite consumed before.
C10_Witness ==
    /\ resp.op \in {"acceptInvitation", "rejectInvitation"}
    /\ resp.code = 404
    /\ <<resp.id, resp.actor>> \in consumed

\* C11: no removeOrganizationMember request ends in the "cannot remove the
\* last owner" return.
C11_LastOwnerBranchUnreachable ==
    [][\A c \in Users, o \in OrgIds, u \in Users :
        RemoveOrganizationMember(c, o, u)
        => RemoveBranch(c, o, u) # "the last owner"]_vars

\* C12 as stated: removeOrganizationMember with a target whose role is owner
\* answers 400 whoever the actor is and leaves the OrganizationMembers rows
\* as they were; with an actor who is not an owner it leaves them as they
\* were.
C12_OwnerTargetBadRequest ==
    [][\A c \in Users, o \in OrgIds, u \in Users :
        RemoveOrganizationMember(c, o, u)
        => /\ MemberRole(o, u) = "owner"
              => /\ resp'.code = 400
                 /\ organizationMembers' = organizationMembers
           /\ MemberRole(o, c) # "owner"
              => organizationMembers' = organizationMembers]_vars

\* C12 as amended: removeOrganizationMember with a target whose role is
\* owner leaves the OrganizationMembers rows as they were and answers 400
\* when the actor is an owner, 401 when not; with an actor who is not an
\* owner it answers 401 and leaves the rows as they were.
C12_OwnerNeverRemoved ==
    [][\A c \in Users, o \in OrgIds, u \in Users :
        RemoveOrganizationMember(c, o, u)
        => /\ MemberRole(o, u) = "owner"
              => /\ organizationMembers' = organizationMembers
                 /\ resp'.code =
                       IF MemberRole(o, c) = "owner" THEN 400 ELSE 401
           /\ MemberRole(o, c) # "owner"
              => /\ resp'.code = 401
                 /\ organizationMembers' = organizationMembers]_vars

\* An owner's removeOrganizationMember was answered 400 in an organization
\* whose every user is an owner: the target was an owner (the actor or
\* another one), and owners were not the last.
C12_Witness ==
    /\ resp.op = "removeOrganizationMember" /\ resp.code = 400
    /\ resp.id \in organizations
    /\ \A u \in Users : MemberRole(resp.id, u) = "owner"

\* C13: an updateTask by an authorized actor that asks for status
\* in-progress and does not change the assignee (the body leaves assigneeId
\* out or repeats the task's) moves a todo task with no started_date to
\* in-progress with started_date = now, and on a task already in-progress
\* answers 403 and leaves the task as it was.
C13_StartThenForbidden ==
    [][\A u \in Users, t \in TaskIds, b \in UpdateBodies :
        (/\ UpdateTask(u, t, b)
         /\ tasks[t] # NoRow
         /\ ~Unauthorized(u, tasks[t])
         /\ Has(b, "status") /\ b.status = "in-progress"
         /\ Has(b, "assigneeId") => b.assigneeId = tasks[t].assigneeId)
        => /\ (tasks[t].status = "todo" /\ tasks[t].started_date = Null)
              => /\ resp'.code = 200
                 /\ tasks'[t].status = "in-progress"
                 /\ tasks'[t].started_date = now
           /\ tasks[t].status = "in-progress"
              => /\ resp'.code = 403
                 /\ tasks'[t] = tasks[t]]_vars

\* C14: a deleteTask, updateTask or completeTask of an actor who is neither
\* the task's assignee, nor its creator, nor an owner of its project answers
\* 403 and leaves the Task and CompletedTask tables as they were.  (A step
\* that leaves the clock alone is a request, answered with resp'.)
C14_OnlyAuthorizedActors ==
    [][(/\ now' = now
        /\ resp'.op \in {"deleteTask", "updateTask", "completeTask"}
        /\ tasks[resp'.id] # NoRow
        /\ resp'.actor # tasks[resp'.id].assigneeId
        /\ resp'.actor # tasks[resp'.id].createdBy
        /\ ProjectMemberRole(resp'.actor, tasks[resp'.id].projectId)
              # "owner")
       => /\ resp'.code = 403
          /\ tasks' = tasks
          /\ completedTasks' = completedTasks]_vars

\* An updateTask of a member of the task's project who is neither its
\* assignee nor its creator was answered 403 on a todo task.
C14_Witness ==
    /\ resp.op = "updateTask" /\ resp.code = 403
    /\ tasks[resp.id] # NoRow
    /\ tasks[resp.id].status = "todo"
    /\ ProjectMemberRole(resp.actor, tasks[resp.id].projectId) = "member"
    /\ resp.actor # tasks[resp.id].assigneeId
    /\ resp.actor # tasks[resp.id].createdBy

\* C15: a completeTask answered 200 appends a CompletedTask row whose hours
\* is the time since started_date in whole hours, rounded down, and sets the
\* task's status to completed; it sets exception to true when hours is 0 and
\* leaves exception as it was otherwise (90 minutes: hours 1, exception as
\* it was; no time at all: hours 0, exception true).
C15_HoursAndException ==
    [][\A u \in Users, t \in TaskIds :
        (CompleteTask(u, t) /\ resp'.code = 200)
        => LET elapsedMs == Abs(now - tasks[t].started_date) * TickMs
               hours == elapsedMs \div HourMs
               row == completedTasks'[Len(completedTasks')]
           IN /\ tasks[t].started_date # Null
              /\ Len(completedTasks') = Len(completedTasks) + 1
              /\ row.task_id = t
              /\ row.hours = hours
              /\ tasks'[t].status = "completed"
              /\ tasks'[t].exception =
                    IF hours = 0 THEN TRUE ELSE tasks[t].exception
              /\ elapsedMs = 90 * 60 * 1000
                    => (hours = 1
                        /\ tasks'[t].exception = tasks[t].exception)
              /\ elapsedMs = 0
                    => (hours = 0 /\ tasks'[t].exception = TRUE)]_vars

\* A task was completed 90 minutes after it was started: its CompletedTask
\* row has hours 1 and its exception flag is still false.
C15_Witness ==
    /\ resp.op = "completeTask" /\ resp.code = 200
    /\ tasks[resp.id] # NoRow
    /\ tasks[resp.id].status = "completed"
    /\ tasks[resp.id].exception = FALSE
    /\ Len(completedTasks) = 1
    /\ completedTasks[1].hours = 1
    /\ (completedTasks[1].completed_date - completedTasks[1].started_date)
          * TickMs = 90 * 60 * 1000

\* C16: getSession(id) returns the session with that id when it exists and
\* is valid, and nothing otherwise.
C16_GetSessionReturnsValid ==
    [][\A i \in SessionIds :
        GetSession(i)
        => returned'.session =
              IF i \in DOMAIN sessions /\ sessions[i].valid
              THEN sessions[i] ELSE NoRow]_vars

\* C17: deleteSession leaves the caller's session with valid = false and
\* every other session's valid as it was; on a session that is already
\* invalid it is answered without an error and leaves every session as it
\* was.
C17_DeleteSessionInvalidatesOwn ==
    [][\A i \in SessionIds, o \in UpdateOutcomes :
        DeleteSession(i, o)
        => /\ sessions'[i].valid = FALSE
           /\ \A j \in DOMAIN sessions \ {i} :
                 sessions'[j].valid = sessions[j].valid
           /\ sessions[i].valid = FALSE
                 => (resp'.code = 200 /\ sessions' = sessions)]_vars

\* C18: a session whose valid flag is false keeps it false through every
\* createSession, getSession and deleteSession.
C18_InvalidStaysInvalid ==
    [][\A i \in DOMAIN sessions :
        sessions[i].valid = FALSE
        => (i \in DOMAIN sessions' /\ sessions'[i].valid = FALSE)]_vars

\* A createSession succeeded while an older session was invalid, and that
\* session is still invalid.
C18_Witness ==
    /\ resp.op = "createSession" /\ resp.code = 200
    /\ \E i \in DOMAIN sessions :
          /\ i < resp.id
          /\ sessions[i].valid = FALSE
          /\ sessions[resp.id].valid = TRUE
          /\ sessions[i].userId = sessions[resp.id].userId

\* C19: every request ends with a response sent to the caller: no handler
\* returns without one and no exception leaves a handler.
C19_EveryRequestAnswered == resp = NoResponse \/ resp.code # NoReply

\* C20: inviteUserToOrganization answers 401 when the actor is not an owner
\* of the organization, else 404 when no user has the email, else 400 when
\* that user is a member of the organization already, and creates no Invite
\* row in these cases; otherwise it creates one Invite row, for that user
\* and organization.
C20_InvitePreconditions ==
    [][\A u \in Users, o \in OrgIds, e \in Users \cup {UnknownEmail} :
        InviteUserToOrganization(u, o, e)
        => LET owner == organizationMembers[<<o, u>>] = "owner"
               exists == e \in Users
               member == exists /\ organizationMembers[<<o, e>>] # NoMember
           IN /\ resp'.code = CASE ~owner -> 401
                                [] owner /\ ~exists -> 404
                                [] owner /\ member -> 400
                                [] OTHER -> 200
              /\ IF owner /\ exists /\ ~member
                 THEN \E i \in invites' \ invites :
                         /\ invites' = invites \cup {i}
                         /\ i.organizationId = o
                         /\ i.userId = e
                 ELSE invites' = invites]_vars

\* An owner's invitation of a user who is not a member was answered 200 and
\* its Invite row exists.
C20_Witness ==
    /\ resp.op = "inviteUserToOrganization" /\ resp.code = 200
    /\ \E i \in invites :
          /\ i.secret = resp.id
          /\ organizationMembers[<<i.organizationId, resp.actor>>] = "owner"
          /\ organizationMembers[<<i.organizationId, i.userId>>] = NoMember

\* C21: acceptInvitation with the secret of an invite issued to the actor is
\* answered 200, creates the membership row of that user in the invite's
\* organization with role member (and no other) and destroys the invite;
\* with any other pair of secret and actor it is answered 404 and leaves
\* the memberships and the invites as they were.
C21_AcceptOnlyForInvitee ==
    [][\A u \in Users, s \in Secrets :
        AcceptInvitation(u, s, 0)
        => IF \E i \in invites : i.secret = s /\ i.userId = u
           THEN \E i \in invites :
                   /\ i.secret = s /\ i.userId = u
                   /\ resp'.code = 200
                   /\ organizationMembers' =
                         [organizationMembers EXCEPT
                             ![<<i.organizationId, u>>] = "member"]
                   /\ invites' = invites \ {i}
           ELSE /\ resp'.code = 404
                /\ organizationMembers' = organizationMembers
                /\ invites' = invites]_vars

\* C22: getTasksProject on a project whose organization exists answers 200
\* with exactly the project's tasks that are not completed when the actor
\* is a member of the project or an owner of the organization, and answers
\* 403 with no data for every other actor.
C22_GetTasksProjectGate ==
    [][\A u \in Users, p \in Projects :
        (GetTasksProject(u, p) /\ ProjectOrganization(p) \in organizations)
        => IF \/ ProjectMemberRole(u, p) # NoMember
              \/ organizationMembers[<<ProjectOrganization(p), u>>] = "owner"
           THEN /\ resp'.code = 200
                /\ listed' = {t \in TaskIds :
                                 /\ tasks[t] # NoRow
                                 /\ tasks[t].projectId = p
                                 /\ tasks[t].status # "completed"}
           ELSE /\ resp'.code = 403
                /\ listed' = {}]_vars

\* C23: getTasksUser and getCompletedTasksProject, on a project whose
\* organization exists, grant access (answer 200) exactly when the actor is
\* a member of the project or an owner of the organization, as
\* getTasksProject does.
C23_SameGate ==
    [][\A c \in Users, p \in Projects :
        LET allowed ==
              \/ ProjectMemberRole(c, p) # NoMember
              \/ organizationMembers[<<ProjectOrganization(p), c>>] = "owner"
        IN ProjectOrganization(p) \in organizations
           => /\ GetCompletedTasksProject(c, p)
                 => (resp'.code = 200 <=> allowed)
              /\ \A u \in Users :
                    GetTasksUser(c, ProjectOrganization(p), p, u)
                    => (resp'.code = 200 <=> allowed)
              /\ GetTasksProject(c, p)
                 => (resp'.code = 200 <=> allowed)]_vars

\* C24: createTask creates a task, with status todo and no started_date, for
\* the project and assignee it was given, exactly when the actor and the
\* assignee are members of the project; when the actor is not a member, and
\* when the actor is but the assignee is not, it answers 403, each with a
\* message of its own, and creates no task.
C24_CreateTaskConditions ==
    [][resp'.op = "createTask"
       => \A u \in Users, a \in Users, p \in Projects, c \in Users :
            CreateTask(u, a, p, c)
            => LET actorIn == ProjectMemberRole(u, p) # NoMember
                   assigneeIn == ProjectMemberRole(a, p) # NoMember
               IN IF actorIn /\ assigneeIn
                  THEN /\ resp'.code = 200
                       /\ tasks[resp'.id] = NoRow
                       /\ tasks'[resp'.id] # NoRow
                       /\ tasks'[resp'.id].status = "todo"
                       /\ tasks'[resp'.id].started_date = Null
                       /\ tasks'[resp'.id].projectId = p
                       /\ tasks'[resp'.id].assigneeId = a
                       /\ \A t \in TaskIds \ {resp'.id} :
                             tasks'[t] = tasks[t]
                  ELSE /\ resp'.code = 403
                       /\ tasks' = tasks
                       /\ CreateTaskBranch(u, a, p) =
                             IF ~actorIn
                             THEN "You are not a member of this project"
                             ELSE "The assignee is not a member of this "
                                      \o "project"]_vars

\* createTask has created a task: actor and assignee are members of its
\* project, it is todo and has no started_date.
C24_Witness ==
    /\ resp.op = "createTask" /\ resp.code = 200
    /\ tasks[resp.id] # NoRow
    /\ tasks[resp.id].status = "todo"
    /\ tasks[resp.id].started_date = Null
    /\ ProjectMemberRole(resp.actor, tasks[resp.id].projectId) # NoMember
    /\ ProjectMemberRole(tasks[resp.id].assigneeId, tasks[resp.id].projectId)
          # NoMember

\* C25: a CompletedTask row, once created, stays as it is: no request
\* changes or removes it, updateTask and deleteTask of its task included.
C25_CompletedTaskAppendOnly ==
    [][\A i \in DOMAIN completedTasks :
        /\ i \in DOMAIN completedTasks'
        /\ completedTasks'[i] = completedTasks[i]]_vars

\* deleteTask has destroyed a completed task and the task's CompletedTask
\* row is still there.
C25_Witness ==
    /\ resp.op = "deleteTask" /\ resp.code = 200
    /\ tasks[resp.id] = NoRow
    /\ \E i \in DOMAIN completedTasks : completedTasks[i].task_id = resp.id

\* C26: an updateTask by an authorized actor on a task that is not
\* completed, whose body leaves assigneeId out or repeats the task's, and
\* does not ask for status in-progress, is a plain update: the task keeps
\* its started_date, and its status unless the body supplies one.
C26_PlainUpdateKeepsStatus ==
    [][\A u \in Users, t \in TaskIds, b \in UpdateBodies :
        (/\ UpdateTask(u, t, b)
         /\ tasks[t] # NoRow
         /\ ~Unauthorized(u, tasks[t])
         /\ tasks[t].status # "completed"
         /\ Has(b, "assigneeId") => b.assigneeId = tasks[t].assigneeId
         /\ Has(b, "status") => b.status # "in-progress")
        => /\ resp'.code = 200
           /\ tasks'[t].started_date = tasks[t].started_date
           /\ tasks'[t].status =
                 IF Has(b, "status") THEN b.status ELSE tasks[t].status]_vars

\* C27: a task whose status is in-progress has a started_date, in every
\* state that interleaved updateTask requests reach.
C27_InProgressHasStartedDate ==
    \A t \in TaskIds :
        (tasks[t] # NoRow /\ tasks[t].status = "in-progress")
        => tasks[t].started_date # Null

\* C28: the assignee of every task is a member of the task's project.
C28_AssigneeIsProjectMember ==
    \A t \in TaskIds :
        tasks[t] # NoRow
        => ProjectMemberRole(tasks[t].assigneeId, tasks[t].projectId)
              # NoMember

\* C29: the createdBy of a task that createTask creates is the actor of the
\* request.
C29_CreatedByIsActor ==
    [][(/\ resp'.op = "createTask" /\ resp'.code = 200
        /\ tasks[resp'.id] = NoRow /\ tasks'[resp'.id] # NoRow)
       => tasks'[resp'.id].createdBy = resp'.actor]_vars

\* C30: at most one OrganizationMembers row per (organizationId, userId), in
\* every state reachable by inviteUserToOrganization requests and
\* acceptInvitation requests interleaved at their awaits; the role a lookup
\* finds exists exactly when a row does.
C30_OneRowPerMember ==
    \A k \in OrgIds \X Users :
        /\ memberRows[k] <= 1
        /\ (memberRows[k] = 0) <=> (organizationMembers[k] = NoMember)

\* Two pending invites of one user were both found by requests in flight;
\* the first insert went through and the second request was answered 500
\* with the user's single row in place.
C30_Witness ==
    /\ resp.op = "acceptInvitation" /\ resp.code = 500
    /\ \E r \in ReqIds :
          /\ inflight[r].pc = "destroy"
          /\ inflight[r].invite.userId = resp.actor
          /\ inflight[r].secret # resp.id
          /\ memberRows[<<inflight[r].invite.organizationId, resp.actor>>] = 1
====
